---- MODULE Spec2Model ----
(***************************************************************************)
(* A model of src/main.py, the ISS tracker: the module entry point, main   *)
(* and the functions it calls.  The external collaborators (standard       *)
(* input, the Nominatim geocoder, TimezoneFinder, the N2YO HTTP API, the   *)
(* process environment) are the nondeterministic inputs of the actions.    *)
(*                                                                         *)
(* Conventions.  A Python value that may be None is a sequence of length   *)
(* at most one: <<>> is None and <<v>> is the value v.  Angles (azimuths)  *)
(* are integers in hundredths of a degree, so 22.5 degrees is 2250;        *)
(* latitudes and longitudes are integers in millionths of a degree.        *)
(***************************************************************************)
EXTENDS Integers, Sequences, FiniteSets, TLC

VARIABLES
    apiKey,        \* N2YO_API_KEY, read from the environment (line 19)
    pc,            \* position of the program
    exc,           \* the exception that ended the program, "none" otherwise
    mainEntered,   \* number of times main() has been entered
    out,           \* lines printed so far (each by its leading words)
    calls,         \* calls made to the external collaborators, in order
    location,      \* main: location
    geo,           \* what the geocoder answered ("not called" before / without)
    latitude,      \* main: latitude   (<<>> while unbound)
    longitude,     \* main: longitude
    address,       \* main: address
    timezone_str,  \* main: timezone_str
    posResp,       \* the answer to GET .../positions/...
    issPos,        \* main: (lat, lng, alt)
    passResp,      \* the answer to GET .../visualpasses/...
    passes,        \* main: passes
    nextPass,      \* main: the for loop's position in passes
    formatted,     \* what format_pass_info returned, per pass printed
    azimuth,       \* get_cardinal_direction: azimuth of the latest call
    index,         \* get_cardinal_direction: index
    label          \* get_cardinal_direction: the value returned

vars == <<apiKey, pc, exc, mainEntered, out, calls, location, geo, latitude,
          longitude, address, timezone_str, posResp, issPos, passResp, passes,
          nextPass, formatted, azimuth, index, label>>

None == <<>>
Some(v) == <<v>>

(***************************************************************************)
(* Program constants.                                                      *)
(***************************************************************************)
DEFAULT_CITY == "Los Angeles"
DEFAULT_LATITUDE == 34052235
DEFAULT_LONGITUDE == -118243683
SATELLITE_ID == 25544
\* 22.5, the divisor of line 165, in hundredths of a degree
SectorWidth == 2250

(***************************************************************************)
(* Bounds of the model.                                                    *)
(***************************************************************************)
\* azimuths handed to get_cardinal_direction range over 0..MaxAzimuth
MaxAzimuth == 36000
\* the passes array of a response holds at most MaxPasses entries
MaxPasses == 2

(***************************************************************************)
(* get_cardinal_direction (lines 149-166).                                 *)
(***************************************************************************)
directions == <<"N", "NNE", "NE", "ENE", "E", "ESE", "SE", "SSE",
                "S", "SSW", "SW", "WSW", "W", "WNW", "NW", "NNW">>

\* int(n / d): the quotient with its fraction dropped (a plausible slip for round)
PyRound_Truncating(n, d) == n \div d

\* floor(n / d + 0.5): ties always go up (the rounding of many other languages)
PyRound_HalfUp(n, d) == (2 * n + d) \div (2 * d)

\* Python 3's round(n / d) for d > 0: the nearest integer, a tie going to the
\* even neighbour.  The floating-point quotient azimuth / 22.5 is exact at the
\* ties (an odd multiple of 11.25 and 22.5 are both binary fractions) and every
\* other azimuth of the grid lies 0.01 / 22.5 from a tie at the least, far more
\* than the error of one division, so the rational quotient n / d decides.
PyRound(n, d) ==
    LET q == n \div d
        r == n % d
    IN  IF 2 * r < d THEN q
        ELSE IF 2 * r > d THEN q + 1
        ELSE IF q % 2 = 0 THEN q ELSE q + 1

\* the index clamped to the last entry instead of reduced modulo 16
CardinalIndex_Clamped(az) ==
    LET k == PyRound(az, SectorWidth)
    IN  IF k > Len(directions) - 1 THEN Len(directions) - 1 ELSE k

\* line 165: index = round(azimuth / 22.5) % 16
CardinalIndex(az) == PyRound(az, SectorWidth) % 16

\* line 166: directions[index] (Python counts from 0, TLA+ from 1)
get_cardinal_direction(az) == directions[CardinalIndex(az) + 1]

(***************************************************************************)
(* The state before the program has done anything.                         *)
(***************************************************************************)
Fresh ==
    /\ exc = "none"
    /\ mainEntered = 0
    /\ out = <<>>
    /\ calls = <<>>
    /\ location = None
    /\ geo = "not called"
    /\ latitude = None
    /\ longitude = None
    /\ address = None
    /\ timezone_str = None
    /\ posResp = None
    /\ issPos = None
    /\ passResp = None
    /\ passes = None
    /\ nextPass = 0
    /\ formatted = <<>>

(***************************************************************************)
(* get_user_location (lines 23-40).  The three arguments are what the user *)
(* types at the prompts, already stripped; a string built by concatenation *)
(* is the sequence of its comma-separated parts.                           *)
(***************************************************************************)
Call(op, what, nums) == [op |-> op, what |-> what, nums |-> nums]

get_user_location(city, state, country) ==
    IF city = ""
    THEN [value |-> None,
          out |-> <<"Enter location details (press Enter for Los Angeles):">>,
          calls |-> <<Call("input", <<"City: ">>, <<>>)>>]
    ELSE LET country2 == IF country = "" THEN "USA" ELSE country
             withState == IF state # "" THEN <<city, state>> ELSE <<city>>
             withCountry == IF country2 # "" THEN withState \o <<country2>>
                            ELSE withState
         IN  [value |-> Some(withCountry),
              out |-> <<"Enter location details (press Enter for Los Angeles):">>,
              calls |-> <<Call("input", <<"City: ">>, <<>>),
                          Call("input", <<"State (optional, press Enter to skip): ">>, <<>>),
                          Call("input", <<"Country (optional, press Enter for USA): ">>, <<>>)>>]

(***************************************************************************)
(* get_city_coordinates (lines 43-61).  answer is what geolocator.geocode  *)
(* does when it is called: it returns a match, returns None, or raises an  *)
(* exception of geopy.exc.  Lines 8 and 59 name two of these exceptions;   *)
(* GeocoderQuotaExceeded (the service answers HTTP 429) stands for the     *)
(* others, which line 59 does not catch.                                   *)
(***************************************************************************)
Places ==
    { [latitude |-> 48856614, longitude |-> 2352222, address |-> "Paris, France"],
      [latitude |-> 30267153, longitude |-> -97743057, address |-> "Austin, Texas"] }

GeocodeAnswers ==
    { [kind |-> k, place |-> None] :
        k \in {"no match", "GeocoderTimedOut", "GeocoderUnavailable",
               "GeocoderQuotaExceeded"} }
    \cup { [kind |-> "match", place |-> Some(pl)] : pl \in Places }

DefaultLocation ==
    [latitude |-> DEFAULT_LATITUDE, longitude |-> DEFAULT_LONGITUDE,
     address |-> DEFAULT_CITY]

\* "not location": None and the empty string are false
Falsy(loc) == loc = None \/ loc = Some(<<>>)

get_city_coordinates(loc, answer) ==
    IF Falsy(loc)
    THEN [exc |-> "none", value |-> Some(DefaultLocation), geo |-> "not called",
          out |-> <<"Using default location:">>, calls |-> <<>>]
    ELSE LET call == <<Call("geocode", loc[1], <<>>)>>
         IN  CASE answer.kind = "match" ->
                    [exc |-> "none", value |-> answer.place, geo |-> answer.kind,
                     out |-> <<"Found location:">>, calls |-> call]
               [] answer.kind = "no match" ->
                    [exc |-> "none", value |-> Some(DefaultLocation),
                     geo |-> answer.kind,
                     out |-> <<"Could not find coordinates for">>, calls |-> call]
               [] answer.kind \in {"GeocoderTimedOut", "GeocoderUnavailable"} ->
                    [exc |-> "none", value |-> Some(DefaultLocation),
                     geo |-> answer.kind,
                     out |-> <<"Error getting coordinates:">>, calls |-> call]
               [] OTHER ->
                    [exc |-> answer.kind, value |-> None, geo |-> answer.kind,
                     out |-> <<>>, calls |-> call]

(***************************************************************************)
(* get_timezone_from_coordinates (lines 64-68).  found is what             *)
(* tf.timezone_at returns: None or an identifier.                          *)
(***************************************************************************)
\* the identifiers the installed pytz knows
PytzZones == {"America/Los_Angeles", "Europe/Paris"}

\* TimezoneFinder has its own zone data, which may name a zone that the
\* installed pytz does not have
TimezoneAnswers == {None, Some("Europe/Paris"), Some("America/Ciudad_Juarez")}

get_timezone_from_coordinates(lat, lng, found) ==
    IF found = None \/ found = Some("") THEN "America/Los_Angeles" ELSE found[1]

(***************************************************************************)
(* get_iss_position (lines 71-108).  A response is what requests.get and   *)
(* the two calls after it meet: no response at all, a response whose       *)
(* status raise_for_status rejects, or a JSON object.  Of the object only  *)
(* what the code reads is kept: whether it has the key 'error', and the    *)
(* value at 'positions' (None when the key is not there).  Bodies that are *)
(* no JSON object, and a positions value that is no array, are not among   *)
(* the responses drawn.                                                    *)
(***************************************************************************)
\* a value of the JSON object that is one entry of positions:
\*   number  a JSON number,       string  a string holding a number ("51"),
\*   text    any other string,    null    JSON null,
\*   absent  the key is not in the object
JsonFields ==
    { [t |-> "number", v |-> 51], [t |-> "string", v |-> 408],
      [t |-> "text", v |-> 0], [t |-> "null", v |-> 0], [t |-> "absent", v |-> 0] }

PositionEntries ==
    [satlatitude : JsonFields, satlongitude : JsonFields, sataltitude : JsonFields]

\* an entry as the service documents it
GoodEntry ==
    [satlatitude |-> [t |-> "number", v |-> 51],
     satlongitude |-> [t |-> "number", v |-> 51],
     sataltitude |-> [t |-> "number", v |-> 51]]

PositionResponses ==
    { [kind |-> k, error |-> FALSE, positions |-> None] :
        k \in {"ConnectionError", "HTTPError"} }
    \cup { [kind |-> "json", error |-> TRUE, positions |-> p] :
             p \in {None, Some(<<GoodEntry>>)} }
    \cup { [kind |-> "json", error |-> FALSE, positions |-> p] :
             p \in {None, Some(<<>>)} \cup { Some(<<en>>) : en \in PositionEntries } }

\* the except clauses of lines 103-108, after RequestException (line 100)
Caught(e) == e \in {"KeyError", "IndexError", "ValueError"}

\* float(entry[key]) of line 98: the exception it raises, "none" when it returns
FloatOf(f) ==
    CASE f.t = "absent" -> "KeyError"
      [] f.t = "text" -> "ValueError"
      [] f.t = "null" -> "TypeError"
      [] OTHER -> "none"

Absent == <<None, None, None>>

get_iss_position(resp) ==
    LET sleep == <<Call("sleep", <<>>, <<1>>)>>
        get == <<Call("GET", <<"positions">>, <<SATELLITE_ID, 0, 0, 0, 1>>)>>
        Fail(line) == [exc |-> "none", value |-> Absent, calls |-> sleep \o get,
                       out |-> line]
        debug == <<"API Response:">>
    IN  IF resp.kind # "json"
        THEN Fail(<<"Error getting ISS position:">>)
        ELSE IF resp.error
        THEN Fail(debug \o <<"API Error:">>)
        ELSE IF resp.positions = None
        THEN Fail(debug \o <<"Unexpected API response format - 'positions' key not found">>)
        ELSE IF resp.positions[1] = <<>>
        THEN Fail(debug \o <<"No position data returned">>)
        ELSE LET en == resp.positions[1][1]
                 e1 == FloatOf(en.satlatitude)
                 e2 == FloatOf(en.satlongitude)
                 e3 == FloatOf(en.sataltitude)
                 raised == IF e1 # "none" THEN e1
                           ELSE IF e2 # "none" THEN e2 ELSE e3
             IN  IF raised = "none"
                 THEN [exc |-> "none",
                       value |-> <<Some(en.satlatitude.v), Some(en.satlongitude.v),
                                   Some(en.sataltitude.v)>>,
                       calls |-> sleep \o get, out |-> debug]
                 ELSE IF Caught(raised)
                 THEN Fail(debug \o
                           <<IF raised = "ValueError"
                             THEN "Error converting position values:"
                             ELSE "Error parsing API response:">>)
                 ELSE [exc |-> raised, value |-> Absent, calls |-> sleep \o get,
                       out |-> debug]

(***************************************************************************)
(* get_next_passes (lines 111-121).  Of the JSON object only the value at  *)
(* 'passes' is kept (None when the key is not there).                      *)
(***************************************************************************)
PassPool ==
    { [startUTC |-> 1700000000, endUTC |-> 1700000420, startAz |-> 31621,
       endAz |-> 1125, maxEl |-> 62, duration |-> 420],
      [startUTC |-> 1700090000, endUTC |-> 1700090310, startAz |-> 20000,
       endAz |-> 5625, maxEl |-> 17, duration |-> 310] }

RECURSIVE SeqsUpTo(_, _)
SeqsUpTo(S, n) ==
    IF n = 0 THEN {<<>>}
    ELSE LET shorter == SeqsUpTo(S, n - 1)
         IN  shorter \cup { Append(q, x) : q \in shorter, x \in S }

PassResponses ==
    { [kind |-> k, passes |-> None] : k \in {"ConnectionError", "HTTPError"} }
    \cup { [kind |-> "json", passes |-> p] :
             p \in {None} \cup { Some(q) : q \in SeqsUpTo(PassPool, MaxPasses) } }

\* a missing 'passes' key answered with None, as get_iss_position answers its own
get_next_passes_Lenient(lat, lng, resp) ==
    [exc |-> "none",
     value |-> IF resp.kind = "json" THEN resp.passes ELSE None,
     calls |-> <<Call("GET", <<"visualpasses">>,
                      <<SATELLITE_ID, lat, lng, 0, 10, 300>>)>>,
     out |-> IF resp.kind = "json" THEN <<>>
             ELSE <<"Error getting pass predictions:">>]

\* latitude and longitude in each other's place in the URL
get_next_passes_Swapped(lat, lng, resp) ==
    LET get == <<Call("GET", <<"visualpasses">>,
                      <<SATELLITE_ID, lng, lat, 0, 10, 300>>)>>
    IN  IF resp.kind # "json"
        THEN [exc |-> "none", value |-> None, calls |-> get,
              out |-> <<"Error getting pass predictions:">>]
        ELSE IF resp.passes = None
        THEN [exc |-> "KeyError", value |-> None, calls |-> get, out |-> <<>>]
        ELSE [exc |-> "none", value |-> resp.passes, calls |-> get, out |-> <<>>]

get_next_passes(lat, lng, resp) ==
    LET get == <<Call("GET", <<"visualpasses">>,
                      <<SATELLITE_ID, lat, lng, 0, 10, 300>>)>>
    IN  IF resp.kind # "json"
        THEN [exc |-> "none", value |-> None, calls |-> get,
              out |-> <<"Error getting pass predictions:">>]
        ELSE IF resp.passes = None
        THEN [exc |-> "KeyError", value |-> None, calls |-> get, out |-> <<>>]
        ELSE [exc |-> "none", value |-> resp.passes, calls |-> get, out |-> <<>>]

(***************************************************************************)
(* format_pass_info (lines 124-146).  A line of the text is its leading    *)
(* words, the number it shows and the words it shows: for a time, the      *)
(* epoch seconds and the zone they are shown in.                           *)
(***************************************************************************)
Line(head, num, txt, txt2) == [head |-> head, num |-> num, txt |-> txt, txt2 |-> txt2]

\* what pytz.exceptions defines: the name PytzError of line 140 is not among
\* them, so when an exception reaches line 140 the lookup of the name raises
\* AttributeError in its place
PytzExceptions ==
    {"Error", "UnknownTimeZoneError", "InvalidTimeError", "AmbiguousTimeError",
     "NonExistentTimeError"}

format_pass_info(pass_data, tz) ==
    IF tz \in PytzZones
    THEN [exc |-> "none", out |-> <<>>,
          text |-> << Line("Start:", pass_data.startUTC, tz, ""),
                      Line("Starting direction:", pass_data.startAz,
                           get_cardinal_direction(pass_data.startAz), ""),
                      Line("Maximum Elevation:", pass_data.maxEl, "", ""),
                      Line("Ending direction:", pass_data.endAz,
                           get_cardinal_direction(pass_data.endAz), ""),
                      Line("End:", pass_data.endUTC, tz, ""),
                      Line("Duration:", pass_data.duration, "", ""),
                      Line("Viewing guide:", pass_data.maxEl,
                           get_cardinal_direction(pass_data.startAz),
                           get_cardinal_direction(pass_data.endAz)) >>]
    ELSE IF "PytzError" \in PytzExceptions
    THEN [exc |-> "none", out |-> <<"Timezone error:">>,
          text |-> << Line("Start:", pass_data.startUTC, "UTC", ""),
                      Line("End:", pass_data.endUTC, "UTC", "") >>]
    ELSE [exc |-> "AttributeError", out |-> <<>>, text |-> <<>>]

(***************************************************************************)
(* Spec: one run of the program, from the entry point of lines 204-208     *)
(* through main (lines 169-201).  Each action is one call that main makes, *)
(* with the prints of main that follow it.  An exception that nothing      *)
(* catches ends the program: pc = "crashed", exc names the exception.      *)
(***************************************************************************)
\* what the user may type at the three prompts
Cities == {"", "Paris"}
States == {"", "TX"}
Countries == {"", "France"}

\* what os.getenv("N2YO_API_KEY") may return: None, or the variable's value
ApiKeys == {None, Some(""), Some("secret")}

Init ==
    /\ Fresh
    /\ apiKey \in ApiKeys
    /\ pc = "__main__"
    /\ azimuth = 0
    /\ index = 0
    /\ label = ""

\* "is None" written for "not": an empty key counts as a key
KeyMissing_OnlyNone(key) == key = None

\* line 205: not N2YO_API_KEY
KeyMissing(key) == key = None \/ key = Some("")

\* lines 204-208
ModuleEntry ==
    /\ pc = "__main__"
    /\ IF KeyMissing(apiKey)
       THEN /\ out' = Append(out, "Error: N2YO API key not found.")
            /\ pc' = "exit"
            /\ UNCHANGED mainEntered
       ELSE /\ mainEntered' = mainEntered + 1
            /\ pc' = "get_user_location"
            /\ UNCHANGED out
    /\ UNCHANGED <<apiKey, exc, calls, location, geo, latitude, longitude,
                   address, timezone_str, posResp, issPos, passResp, passes,
                   nextPass, formatted, azimuth, index, label>>

\* line 171
UserLocation ==
    /\ pc = "get_user_location"
    /\ \E city \in Cities, state \in States, country \in Countries :
          LET r == get_user_location(city, state, country)
          IN  /\ location' = r.value
              /\ out' = out \o r.out
              /\ calls' = calls \o r.calls
    /\ pc' = "get_city_coordinates"
    /\ UNCHANGED <<apiKey, exc, mainEntered, geo, latitude, longitude, address,
                   timezone_str, posResp, issPos, passResp, passes, nextPass,
                   formatted, azimuth, index, label>>

\* line 174
CityCoordinates ==
    /\ pc = "get_city_coordinates"
    /\ \E answer \in GeocodeAnswers :
          LET r == get_city_coordinates(location, answer)
          IN  /\ geo' = r.geo
              /\ out' = out \o r.out
              /\ calls' = calls \o r.calls
              /\ exc' = r.exc
              /\ IF r.exc = "none"
                 THEN /\ latitude' = Some(r.value[1].latitude)
                      /\ longitude' = Some(r.value[1].longitude)
                      /\ address' = Some(r.value[1].address)
                      /\ pc' = "get_timezone_from_coordinates"
                 ELSE /\ pc' = "crashed"
                      /\ UNCHANGED <<latitude, longitude, address>>
    /\ UNCHANGED <<apiKey, mainEntered, location, timezone_str, posResp, issPos,
                   passResp, passes, nextPass, formatted, azimuth, index, label>>

\* lines 175-182
Timezone ==
    /\ pc = "get_timezone_from_coordinates"
    /\ \E found \in TimezoneAnswers :
          timezone_str' =
              Some(get_timezone_from_coordinates(latitude[1], longitude[1], found))
    /\ calls' = Append(calls, Call("timezone_at", <<>>, <<latitude[1], longitude[1]>>))
    /\ out' = out \o <<"Location:", "Coordinates:", "Timezone:",
                       "Fetching ISS position...">>
    /\ pc' = "get_iss_position"
    /\ UNCHANGED <<apiKey, exc, mainEntered, location, geo, latitude, longitude,
                   address, posResp, issPos, passResp, passes, nextPass,
                   formatted, azimuth, index, label>>

\* line 184: all(v is not None for v in (lat, lng, alt))
AllPresent(t) == \A i \in 1..Len(t) : t[i] # None

\* lines 183-193
IssPosition ==
    /\ pc = "get_iss_position"
    /\ \E resp \in PositionResponses :
          LET r == get_iss_position(resp)
          IN  /\ posResp' = Some(resp)
              /\ calls' = calls \o r.calls
              /\ exc' = r.exc
              /\ IF r.exc = "none"
                 THEN /\ issPos' = r.value
                      /\ out' = out \o r.out
                                \o (IF AllPresent(r.value)
                                    THEN <<"Current ISS Position:", "Latitude:",
                                           "Longitude:", "Altitude:">>
                                    ELSE <<"Unable to fetch current ISS position">>)
                                \o <<"Fetching upcoming passes...">>
                      /\ pc' = "get_next_passes"
                 ELSE /\ out' = out \o r.out
                      /\ pc' = "crashed"
                      /\ UNCHANGED issPos
    /\ UNCHANGED <<apiKey, mainEntered, location, geo, latitude, longitude,
                   address, timezone_str, passResp, passes, nextPass, formatted,
                   azimuth, index, label>>

\* line 195: if passes
Truthy(p) == p # None /\ p[1] # <<>>

\* a line of its own for each of the two outcomes that line 201 reports together
PassReport_Apart(p) ==
    IF Truthy(p) THEN "Upcoming visible passes:"
    ELSE IF p = None THEN "Error fetching pass data"
    ELSE "No upcoming visible passes found"

\* lines 196 and 201: what main prints once get_next_passes has returned
PassReport(p) ==
    IF Truthy(p) THEN "Upcoming visible passes:"
    ELSE "No upcoming visible passes found or error fetching pass data"

\* lines 194-196, 200-201
NextPasses ==
    /\ pc = "get_next_passes"
    /\ \E resp \in PassResponses :
          LET r == get_next_passes(latitude[1], longitude[1], resp)
          IN  /\ passResp' = Some(resp)
              /\ calls' = calls \o r.calls
              /\ exc' = r.exc
              /\ IF r.exc = "none"
                 THEN /\ passes' = r.value
                      /\ out' = out \o r.out \o <<PassReport(r.value)>>
                      /\ pc' = IF Truthy(r.value) THEN "for pass_data" ELSE "exit"
                      /\ nextPass' = IF Truthy(r.value) THEN 1 ELSE nextPass
                 ELSE /\ out' = out \o r.out
                      /\ pc' = "crashed"
                      /\ UNCHANGED <<passes, nextPass>>
    /\ UNCHANGED <<apiKey, mainEntered, location, geo, latitude, longitude,
                   address, timezone_str, posResp, issPos, formatted, azimuth,
                   index, label>>

\* lines 197-199: one turn of the loop
FormatPass ==
    /\ pc = "for pass_data"
    /\ LET pass_data == passes[1][nextPass]
           r == format_pass_info(pass_data, timezone_str[1])
       IN  /\ exc' = r.exc
           /\ IF r.exc = "none"
              THEN /\ out' = out \o <<"Pass:">> \o r.out \o <<"(the pass, formatted)">>
                   /\ formatted' = Append(formatted, r.text)
                   /\ nextPass' = nextPass + 1
                   /\ pc' = IF nextPass = Len(passes[1]) THEN "exit"
                            ELSE "for pass_data"
                   /\ IF timezone_str[1] \in PytzZones
                      THEN /\ azimuth' = pass_data.endAz
                           /\ index' = CardinalIndex(pass_data.endAz)
                           /\ label' = get_cardinal_direction(pass_data.endAz)
                      ELSE UNCHANGED <<azimuth, index, label>>
              ELSE /\ out' = out \o <<"Pass:">> \o r.out
                   /\ pc' = "crashed"
                   /\ UNCHANGED <<formatted, nextPass, azimuth, index, label>>
    /\ UNCHANGED <<apiKey, mainEntered, calls, location, geo, latitude,
                   longitude, address, timezone_str, posResp, issPos, passResp,
                   passes>>

Next ==
    \/ ModuleEntry
    \/ UserLocation
    \/ CityCoordinates
    \/ Timezone
    \/ IssPosition
    \/ NextPasses
    \/ FormatPass

Spec == Init /\ [][Next]_vars

(***************************************************************************)
(* SpecCardinal: get_cardinal_direction called on its own, once, with any  *)
(* azimuth of the grid.                                                    *)
(***************************************************************************)
InitCardinal ==
    /\ Fresh
    /\ apiKey = None
    /\ pc = "get_cardinal_direction"
    /\ azimuth \in 0..MaxAzimuth
    /\ index = 0
    /\ label = ""

CallCardinal ==
    /\ pc = "get_cardinal_direction"
    /\ index' = CardinalIndex(azimuth)
    /\ label' = get_cardinal_direction(azimuth)
    /\ pc' = "returned"
    /\ UNCHANGED <<apiKey, exc, mainEntered, out, calls, location, geo,
                   latitude, longitude, address, timezone_str, posResp, issPos,
                   passResp, passes, nextPass, formatted, azimuth>>

NextCardinal == CallCardinal

SpecCardinal == InitCardinal /\ [][NextCardinal]_vars

(***************************************************************************)
(* Claims about get_cardinal_direction, checked under SpecCardinal.        *)
(***************************************************************************)
Abs(x) == IF x < 0 THEN -x ELSE x

\* 360 degrees: sixteen sectors
FullCircle == Len(directions) * SectorWidth

\* half a sector, 11.25 degrees
HalfSector == SectorWidth \div 2

Returned == pc = "returned"

\* the azimuth lies exactly between two sector centres
OnBoundary == azimuth % SectorWidth = HalfSector

\* C1: for every azimuth in [0, 360) get_cardinal_direction returns exactly one
\* of the 16 labels of the rose, the one at index k mod 16 where k is an integer
\* nearest to azimuth / 22.5 (no integer is nearer); the index is within 0..15.
C1_NearestSectorLabel ==
    (Returned /\ azimuth < FullCircle) =>
        /\ index \in 0..15
        /\ label = directions[index + 1]
        /\ Cardinality({i \in 1..Len(directions) : directions[i] = label}) = 1
        /\ \E k \in 0..16 :
              /\ index = k % 16
              /\ 2 * Abs(azimuth - k * SectorWidth) <= SectorWidth

\* 200 degrees lies in the sector centred on 202.5 degrees, SSW
C1_Witness == Returned /\ azimuth = 20000 /\ index = 9 /\ label = "SSW"

\* C2: the rose wraps around at 360/0 degrees: every azimuth from 348.75 to 360
\* and every azimuth from 0 to 11.25 is N, while 22.5 is NNE and 45 is NE.
C2_WrapAroundNorth ==
    Returned =>
        /\ (azimuth >= FullCircle - HalfSector /\ azimuth <= FullCircle)
              => label = "N"
        /\ azimuth <= HalfSector => label = "N"
        /\ azimuth = 1124 => label = "N"
        /\ azimuth = SectorWidth => label = "NNE"
        /\ azimuth = 2 * SectorWidth => label = "NE"

\* 348.75 degrees rounds to sector 16, which wraps around to N
C2_Witness == Returned /\ azimuth = FullCircle - HalfSector /\ label = "N"

\* C10: an azimuth exactly on a sector boundary goes to the neighbouring sector
\* with the even index, so a sector with an even index owns both its end points
\* and a sector with an odd index owns neither.
C10_TieToEvenSector ==
    (Returned /\ OnBoundary) =>
        LET below == azimuth \div SectorWidth
        IN  /\ index % 2 = 0
            /\ index \in {below % 16, (below + 1) % 16}
            /\ label = directions[index + 1]
            /\ \A k \in 0..15 :
                  (azimuth % FullCircle) \in
                      {(k * SectorWidth + HalfSector) % FullCircle,
                       (k * SectorWidth - HalfSector) % FullCircle}
                  => (index = k <=> k % 2 = 0)
            /\ azimuth = 1125 => label = "N"
            /\ azimuth = 3375 => label = "NE"
            /\ azimuth = 5625 => label = "NE"
            /\ azimuth = 7875 => label = "E"

\* 56.25 degrees, between NE (2) and ENE (3), is NE
C10_Witness == Returned /\ azimuth = 5625 /\ OnBoundary /\ label = "NE"

(***************************************************************************)
(* Claims about the run of the program, checked under Spec.                *)
(***************************************************************************)
Last(sq) == sq[Len(sq)]

Printed(line) == \E i \in 1..Len(out) : out[i] = line

\* the places in calls of the calls of one kind
CallsOf(op, what) == {i \in 1..Len(calls) : calls[i].op = op /\ calls[i].what = what}

Default(lat, lng, addr) ==
    /\ lat = Some(DEFAULT_LATITUDE)
    /\ lng = Some(DEFAULT_LONGITUDE)
    /\ addr = Some(DEFAULT_CITY)

\* main has called get_city_coordinates and the call is over
CityCalled == mainEntered = 1 /\ pc \notin {"get_user_location", "get_city_coordinates"}

\* C3: get_city_coordinates never fails its caller and always returns a
\* Location: the default without a call of the geocoder for empty input, the
\* default when the geocoder finds nothing, times out or is unavailable, and
\* the provider's coordinates and address only on a match.
C3_NeverFailsCaller ==
    CityCalled =>
        /\ latitude # None /\ longitude # None /\ address # None
        /\ Falsy(location) =>
              /\ Default(latitude, longitude, address)
              /\ geo = "not called"
              /\ CallsOf("geocode", <<>>) = {}
        /\ geo \in {"no match", "GeocoderTimedOut", "GeocoderUnavailable"} =>
              Default(latitude, longitude, address)
        /\ ~Default(latitude, longitude, address) =>
              /\ geo = "match"
              /\ \E pl \in Places : /\ latitude = Some(pl.latitude)
                                    /\ longitude = Some(pl.longitude)
                                    /\ address = Some(pl.address)

\* the first entry of positions has three fields that float() converts
Convertible(resp) ==
    /\ resp.kind = "json"
    /\ ~resp.error
    /\ resp.positions # None
    /\ resp.positions[1] # <<>>
    /\ \A f \in {resp.positions[1][1].satlatitude, resp.positions[1][1].satlongitude,
                 resp.positions[1][1].sataltitude} : f.t \in {"number", "string"}

\* C4: get_iss_position answers every failure (no response, a bad status, an
\* error field, no positions field, an empty positions array, a field of the
\* first entry that is no number) with (None, None, None) and raises nothing;
\* only three convertible fields give three floats.
C4_FailuresAreAbsent ==
    posResp # None =>
        IF Convertible(posResp[1])
        THEN LET en == posResp[1].positions[1][1]
             IN  issPos = <<Some(en.satlatitude.v), Some(en.satlongitude.v),
                            Some(en.sataltitude.v)>>
        ELSE issPos = Absent

EmptyPasses == [kind |-> "json", passes |-> Some(<<>>)]

\* C5 as stated: after a response with zero passes get_next_passes has returned
\* an empty list, no pass is formatted, and what main reports is not what it
\* reports after a failed fetch.
C5_ReportTellsApart ==
    passResp = Some(EmptyPasses) =>
        /\ passes = Some(<<>>)
        /\ exc = "none"
        /\ formatted = <<>>
        /\ Last(out) # PassReport(None)

\* C5, amended: after a response with zero passes get_next_passes has returned
\* an empty list (not None, no exception), main formats no pass and ends by
\* printing the line it also prints after a failed fetch; on a failed fetch
\* alone get_next_passes prints its "Error getting pass predictions" line
\* before it.
C5_SameReportErrorLineApart ==
    /\ passResp = Some(EmptyPasses) =>
          /\ passes = Some(<<>>)
          /\ exc = "none"
          /\ pc = "exit"
          /\ formatted = <<>>
          /\ Last(out) = "No upcoming visible passes found or error fetching pass data"
          /\ ~Printed("Error getting pass predictions:")
    /\ (passResp # None /\ passResp[1].kind # "json") =>
          /\ Last(out) = "No upcoming visible passes found or error fetching pass data"
          /\ out[Len(out) - 1] = "Error getting pass predictions:"

C5_Witness ==
    /\ passResp = Some(EmptyPasses)
    /\ passes = Some(<<>>)
    /\ pc = "exit"
    /\ Last(out) = "No upcoming visible passes found or error fetching pass data"

\* C6: a response without a passes field makes get_next_passes raise (KeyError)
\* into main, which gets neither None nor a list; no response and a bad status
\* give None, and either way exactly one request has been sent.
C6_MissingPassesPropagates ==
    passResp # None =>
        /\ Cardinality(CallsOf("GET", <<"visualpasses">>)) = 1
        /\ (passResp[1].kind = "json" /\ passResp[1].passes = None) =>
              /\ pc = "crashed"
              /\ exc = "KeyError"
              /\ passes = None
              /\ formatted = <<>>
              /\ ~Printed(PassReport(None))
              /\ ~Printed(PassReport(Some(<<>>)))
        /\ passResp[1].kind # "json" =>
              /\ pc = "exit"
              /\ exc = "none"
              /\ passes = None
              /\ Printed("Error getting pass predictions:")

C6_Witness ==
    /\ passResp = Some([kind |-> "json", passes |-> None])
    /\ pc = "crashed"
    /\ exc = "KeyError"

\* C7: without the credential (unset or empty) the program prints the error and
\* does nothing else: main is not entered, there is no prompt, no lookup and no
\* request; with it main is entered exactly once.
C7_NoKeyNoWork ==
    /\ apiKey \in {None, Some("")} =>
          /\ mainEntered = 0
          /\ calls = <<>>
          /\ pc \in {"__main__", "exit"}
          /\ pc = "exit" => out = <<"Error: N2YO API key not found.">>
    /\ apiKey \notin {None, Some("")} =>
          /\ mainEntered <= 1
          /\ pc # "__main__" => mainEntered = 1
          /\ ~Printed("Error: N2YO API key not found.")

C7_Witness ==
    /\ apiKey = Some("")
    /\ pc = "exit"
    /\ out = <<"Error: N2YO API key not found.">>
    /\ calls = <<>>

\* format_pass_info has been called: it returned, or it ended the program
FormatCalled == formatted # <<>> \/ (pc = "crashed" /\ passes # None)

Heads(text) == [i \in 1..Len(text) |-> text[i].head]

\* C8: with an identifier pytz knows format_pass_info returns all the lines;
\* with one it does not know it raises nothing and returns the start and end
\* lines alone, in UTC.
C8_DegradesToUtc ==
    FormatCalled =>
        IF timezone_str[1] \in PytzZones
        THEN /\ exc = "none"
             /\ \A i \in 1..Len(formatted) :
                   Heads(formatted[i]) =
                       <<"Start:", "Starting direction:", "Maximum Elevation:",
                         "Ending direction:", "End:", "Duration:", "Viewing guide:">>
        ELSE /\ exc = "none"
             /\ \A i \in 1..Len(formatted) :
                   /\ Heads(formatted[i]) = <<"Start:", "End:">>
                   /\ \A j \in 1..2 : formatted[i][j].txt = "UTC"

\* the place of a call in the order of main
Rank(c) ==
    CASE c.op = "input" -> 1
      [] c.op = "geocode" -> 2
      [] c.op = "timezone_at" -> 3
      [] c.op = "sleep" -> 4
      [] c.op = "GET" /\ c.what = <<"positions">> -> 5
      [] OTHER -> 6

\* C9: main resolves the location, resolves the timezone, fetches the position
\* and fetches the passes in this order, each at most once and each after the
\* one before it has returned; when the position fetch returns (None, None,
\* None) main prints the unavailable line and goes on to the passes fetch,
\* whose request carries the observer's coordinates.
C9_StepsInOrder ==
    /\ \A i, j \in 1..Len(calls) :
          i < j => /\ Rank(calls[i]) <= Rank(calls[j])
                   /\ Rank(calls[i]) = Rank(calls[j]) => calls[i].op = "input"
    /\ Cardinality(CallsOf("input", <<"City: ">>)) <= 1
    /\ CallsOf("geocode", <<>>) # {} => ~Falsy(location)
    /\ \A i \in 1..Len(calls) :
          /\ calls[i].op = "geocode" => calls[i].what = location[1]
          /\ calls[i].op = "timezone_at" =>
                /\ address # None
                /\ calls[i].nums = <<latitude[1], longitude[1]>>
          /\ Rank(calls[i]) = 5 => timezone_str # None
          /\ Rank(calls[i]) = 6 =>
                /\ issPos # None
                /\ calls[i].nums = <<SATELLITE_ID, latitude[1], longitude[1], 0, 10, 300>>
    /\ issPos = Absent =>
          /\ Printed("Unable to fetch current ISS position")
          /\ \/ pc = "get_next_passes" /\ ENABLED NextPasses
             \/ CallsOf("GET", <<"visualpasses">>) # {}

C9_Witness ==
    /\ issPos = Absent
    /\ Printed("Unable to fetch current ISS position")
    /\ \E i \in CallsOf("GET", <<"visualpasses">>) :
          calls[i].nums = <<SATELLITE_ID, latitude[1], longitude[1], 0, 10, 300>>

====
